---- MODULE Spec2Model ----
(***************************************************************************)
(* A state-machine model of pbtools/pbtranscript/ice/IceQuiverAll.py:      *)
(* the IceQuiverAll run descriptor, its command-string formatter           *)
(* (cmd_str / _cmd_str) and its two-stage run() sequence over the          *)
(* collaborators IceQuiver and IceQuiverPostprocess.                       *)
(*                                                                         *)
(* Python strings are sequences of one-character strings, so that          *)
(* concatenation, prefixes and substring search are computed, not assumed. *)
(* The Python value None is the one-element sequence None, which is no     *)
(* string because its element is not a character.                          *)
(***************************************************************************)
EXTENDS Integers, Sequences, FiniteSets, TLC

VARIABLES
    args,         \* the arguments IceQuiverAll(...) was constructed with
    self,         \* the object's attributes (lines 105-111)
    pc,           \* position of the single thread: "idle" or a place in run()
    iceq,         \* <<>> or <<kwargs>>: the IceQuiver built by the current/last run()
    icepq,        \* <<>> or <<kwargs>>: the IceQuiverPostprocess built by it
    trace,        \* collaborator events of the current/last run(), in order
    result,       \* how the last finished run() ended
    cmd,          \* None or the string last returned by cmd_str()
    quiver_done,  \* upstream completion state as left by the polishing stage
    calls         \* number of cmd_str() and run() calls made so far

vars == <<args, self, pc, iceq, icepq, trace, result, cmd, quiver_done, calls>>

\* Bound on the number of public method calls made on one object.
MaxCalls == 3

(***************************************************************************)
(* Strings                                                                 *)
(***************************************************************************)
None == <<"<None>">>

S_empty == <<>>
S_sp == <<" ">>
S_None == <<"N","o","n","e">>

\* IceQuiverAll.prog, line 100
prog == <<"i","c","e","_","q","u","i","v","e","r",".","p","y"," ","a","l","l"," ">>

\* The literal texts of the format strings of _cmd_str, lines 126-131
S_bas_fofn == <<"-","-","b","a","s","_","f","o","f","n","=">>
S_fasta_fofn == <<"-","-","f","a","s","t","a","_","f","o","f","n","=">>
S_report == <<"-","-","r","e","p","o","r","t","=">>
S_summary == <<"-","-","s","u","m","m","a","r","y","=">>

\* "{x}".format(x=v): str(v); a str is copied as it is, None gives "None"
Format(v) == IF v = None THEN S_None ELSE v

(***************************************************************************)
(* The collaborators' option objects.  SgeOptions and                      *)
(* IceQuiverHQLQOptions are defined outside this file; of them the file    *)
(* reads sge_opts.use_sge, sge_opts.cmd_str(show_blasr_nproc,              *)
(* show_quiver_nproc) and ipq_opts.cmd_str().                              *)
(***************************************************************************)
S_blasr_nproc == <<"-","-","b","l","a","s","r","_","n","p","r","o","c","=">>
S_quiver_nproc == <<"-","-","q","u","i","v","e","r","_","n","p","r","o","c","=">>
S_use_sge == <<"-","-","u","s","e","_","s","g","e"," ">>
S_hq_acc == <<"-","-","h","q","_","m","i","n","_","a","c","c","=">>

\* sge_opts.cmd_str(show_blasr_nproc, show_quiver_nproc): the options' own
\* serialization, which surfaces the two parallelism knobs only when asked to
SgeCmdStr(o, show_blasr_nproc, show_quiver_nproc) ==
    (IF show_blasr_nproc THEN S_blasr_nproc \o Format(o.blasr_nproc) \o S_sp ELSE S_empty)
    \o (IF show_quiver_nproc THEN S_quiver_nproc \o Format(o.quiver_nproc) \o S_sp ELSE S_empty)
    \o (IF o.use_sge THEN S_use_sge ELSE S_empty)

\* ipq_opts.cmd_str(): the HQ/LQ options' own serialization
IpqCmdStr(o) == S_hq_acc \o Format(o.hq_min_accuracy) \o S_sp

(***************************************************************************)
(* Constructor arguments the model draws from                              *)
(***************************************************************************)
RootDirs == { <<"/","o","u","t">>, S_report \o <<"r">> }
BasFofns == { <<"b","a","s",".","f","o","f","n">>, <<"b"," ","f">> }
FastaFofns == { <<"f","a",".","f","o","f","n">>, <<"f">> }
ReportFns == { None, S_empty, <<"r",".","c","s","v">>, S_summary \o <<"x">> }
SummaryFns == { None, S_empty, <<"s",".","t","x","t">> }
SgeOptsSet == [use_sge : BOOLEAN, blasr_nproc : {<<"4">>}, quiver_nproc : {<<"8">>, <<"1","6">>}]
IpqOptsSet == [hq_min_accuracy : {<<"0",".","9","9">>, <<"1">>}]

ArgsSet ==
    [root_dir : RootDirs, bas_fofn : BasFofns, fasta_fofn : FastaFofns,
     sge_opts : SgeOptsSet, ipq_opts : IpqOptsSet,
     report_fn : ReportFns, summary_fn : SummaryFns, prog_name : {None}]

(***************************************************************************)
(* IceQuiverAll.__init__, lines 102-111: seven attributes are stored;      *)
(* prog_name is defaulted into a local and dropped.                        *)
(***************************************************************************)
IceQuiverAll_init(a) ==
    [root_dir |-> a.root_dir, bas_fofn |-> a.bas_fofn, fasta_fofn |-> a.fasta_fofn,
     report_fn |-> a.report_fn, summary_fn |-> a.summary_fn,
     sge_opts |-> a.sge_opts, ipq_opts |-> a.ipq_opts]

(***************************************************************************)
(* _cmd_str, lines 121-134                                                 *)
(***************************************************************************)
\* Faulty variant of BaseCmd: the two fofn paths change places (C5 must notice)
BaseCmd_Swapped(root_dir, bas_fofn, fasta_fofn) ==
    prog \o (Format(root_dir) \o S_sp)
         \o (S_bas_fofn \o Format(fasta_fofn) \o S_sp)
         \o (S_fasta_fofn \o Format(bas_fofn) \o S_sp)

\* lines 124-127: program name, root directory and the two fofn flags
BaseCmd(root_dir, bas_fofn, fasta_fofn) ==
    prog \o (Format(root_dir) \o S_sp)
         \o (S_bas_fofn \o Format(bas_fofn) \o S_sp)
         \o (S_fasta_fofn \o Format(fasta_fofn) \o S_sp)

\* Faulty variant of ReportPart: "if report_fn:", which also drops an empty
\* path (C10 must notice)
ReportPart_Truthy(report_fn) ==
    IF report_fn # None /\ report_fn # S_empty
    THEN S_report \o Format(report_fn) \o S_sp ELSE S_empty

\* lines 128-129: what "if report_fn is not None" appends
ReportPart(report_fn) ==
    IF report_fn # None THEN S_report \o Format(report_fn) \o S_sp ELSE S_empty

\* Faulty variant of SummaryPart: the None test is missing (C4 must notice)
SummaryPart_Always(summary_fn) == S_summary \o Format(summary_fn) \o S_sp

\* lines 130-131: what "if summary_fn is not None" appends
SummaryPart(summary_fn) ==
    IF summary_fn # None THEN S_summary \o Format(summary_fn) \o S_sp ELSE S_empty

\* line 132: the SGE options, asked to show both nproc knobs
SgePart(sge_opts) == SgeCmdStr(sge_opts, TRUE, TRUE)

\* line 133
IpqPart(ipq_opts) == IpqCmdStr(ipq_opts)

\* Faulty variant of _cmd_str: the summary flag is appended before the report
\* flag (C8 must notice)
_cmd_str_SummaryFirst(root_dir, bas_fofn, fasta_fofn, sge_opts, ipq_opts, report_fn, summary_fn) ==
    LET cmd0 == BaseCmd(root_dir, bas_fofn, fasta_fofn)
        cmd1 == cmd0 \o SummaryPart(summary_fn)
        cmd2 == cmd1 \o ReportPart(report_fn)
        cmd3 == cmd2 \o SgePart(sge_opts)
        cmd4 == cmd3 \o IpqPart(ipq_opts)
    IN  cmd4

\* lines 121-134, the statements in their order
_cmd_str(root_dir, bas_fofn, fasta_fofn, sge_opts, ipq_opts, report_fn, summary_fn) ==
    LET cmd0 == BaseCmd(root_dir, bas_fofn, fasta_fofn)
        cmd1 == cmd0 \o ReportPart(report_fn)
        cmd2 == cmd1 \o SummaryPart(summary_fn)
        cmd3 == cmd2 \o SgePart(sge_opts)
        cmd4 == cmd3 \o IpqPart(ipq_opts)
    IN  cmd4

\* cmd_str, lines 113-118: _cmd_str on the object's own attributes
cmd_str(o) ==
    _cmd_str(o.root_dir, o.bas_fofn, o.fasta_fofn, o.sge_opts, o.ipq_opts,
             o.report_fn, o.summary_fn)

(***************************************************************************)
(* run(), lines 136-147.  The thread's position is pc; each collaborator   *)
(* call, a constructor call included, is a step that either returns or     *)
(* raises, and an exception leaves run() at once because run() has no try  *)
(* statement.                                                              *)
(***************************************************************************)
\* Exceptions a collaborator may raise
Errors == {"IOError", "ValueError"}

NoResult == [kind |-> "none", by |-> "", err |-> ""]
Returned == [kind |-> "returned", by |-> "", err |-> ""]
Raised(op, e) == [kind |-> "raised", by |-> op, err |-> e]

Call(op) == [op |-> op, ev |-> "call", err |-> ""]
Ret(op) == [op |-> op, ev |-> "return", err |-> ""]
Exc(op, e) == [op |-> op, ev |-> "raise", err |-> e]
Construct(cls) == [op |-> cls, ev |-> "construct", err |-> ""]

\* lines 138-139: the keyword arguments IceQuiver is constructed with
IceQuiverArgs(o) ==
    [root_dir |-> o.root_dir, bas_fofn |-> o.bas_fofn,
     fasta_fofn |-> o.fasta_fofn, sge_opts |-> o.sge_opts]

\* line 145: the literal passed as quit_if_not_done
QuitIfNotDone == FALSE

\* Faulty variant of IceQuiverPostprocessArgs: use_sge is a fixed True instead
\* of the SGE options' flag (C9 must notice)
IceQuiverPostprocessArgs_UseSgeTrue(o) ==
    [root_dir |-> o.root_dir, use_sge |-> TRUE,
     quit_if_not_done |-> QuitIfNotDone, ipq_opts |-> o.ipq_opts]

\* lines 143-146: the keyword arguments IceQuiverPostprocess is constructed with
IceQuiverPostprocessArgs(o) ==
    [root_dir |-> o.root_dir, use_sge |-> o.sge_opts.use_sge,
     quit_if_not_done |-> QuitIfNotDone, ipq_opts |-> o.ipq_opts]

Init ==
    /\ args \in ArgsSet
    /\ self = IceQuiverAll_init(args)
    /\ pc = "idle"
    /\ iceq = <<>>
    /\ icepq = <<>>
    /\ trace = <<>>
    /\ result = NoResult
    /\ cmd = None
    /\ quiver_done \in BOOLEAN
    /\ calls = 0

\* Faulty variant of CmdStr: formatting consumes the report path (C7 must notice)
CmdStr_Mutating ==
    /\ pc = "idle"
    /\ calls < MaxCalls
    /\ calls' = calls + 1
    /\ cmd' = cmd_str(self)
    /\ self' = [self EXCEPT !.report_fn = None]
    /\ UNCHANGED <<args, pc, iceq, icepq, trace, result, quiver_done>>

\* A caller calls cmd_str(), lines 113-134
CmdStr ==
    /\ pc = "idle"
    /\ calls < MaxCalls
    /\ calls' = calls + 1
    /\ cmd' = cmd_str(self)
    /\ UNCHANGED <<args, self, pc, iceq, icepq, trace, result, quiver_done>>

\* A caller calls run(), lines 136-137: a new execution with fresh locals
RunBegin ==
    /\ pc = "idle"
    /\ calls < MaxCalls
    /\ calls' = calls + 1
    /\ iceq' = <<>>
    /\ icepq' = <<>>
    /\ trace' = <<>>
    /\ result' = NoResult
    /\ pc' = "L138"
    /\ UNCHANGED <<args, self, cmd, quiver_done>>

\* lines 138-139: the polishing collaborator is constructed
IceQuiverConstruct ==
    /\ pc = "L138"
    /\ iceq' = <<IceQuiverArgs(self)>>
    /\ trace' = Append(trace, Construct("IceQuiver"))
    /\ pc' = "L140"
    /\ UNCHANGED <<args, self, icepq, result, cmd, quiver_done, calls>>

\* lines 138-139: IceQuiver(...) raises: the exception leaves run()
IceQuiverConstructRaise ==
    /\ pc = "L138"
    /\ \E e \in Errors :
          /\ trace' = Append(trace, Exc("IceQuiver", e))
          /\ result' = Raised("IceQuiver", e)
    /\ pc' = "idle"
    /\ UNCHANGED <<args, self, iceq, icepq, cmd, quiver_done, calls>>

\* line 140: iceq.validate_inputs() is called
ValidateCall ==
    /\ pc = "L140"
    /\ trace' = Append(trace, Call("validate_inputs"))
    /\ pc' = "in_validate_inputs"
    /\ UNCHANGED <<args, self, iceq, icepq, result, cmd, quiver_done, calls>>

\* validate_inputs() returns
ValidateReturn ==
    /\ pc = "in_validate_inputs"
    /\ trace' = Append(trace, Ret("validate_inputs"))
    /\ pc' = "L141"
    /\ UNCHANGED <<args, self, iceq, icepq, result, cmd, quiver_done, calls>>

\* Faulty variant of ValidateRaise: the exception is caught and run() goes on
\* (C2 must notice)
ValidateRaise_Swallowed ==
    /\ pc = "in_validate_inputs"
    /\ \E e \in Errors : trace' = Append(trace, Exc("validate_inputs", e))
    /\ pc' = "L141"
    /\ UNCHANGED <<args, self, iceq, icepq, result, cmd, quiver_done, calls>>

\* validate_inputs() raises: the exception leaves run()
ValidateRaise ==
    /\ pc = "in_validate_inputs"
    /\ \E e \in Errors :
          /\ trace' = Append(trace, Exc("validate_inputs", e))
          /\ result' = Raised("validate_inputs", e)
    /\ pc' = "idle"
    /\ UNCHANGED <<args, self, iceq, icepq, cmd, quiver_done, calls>>

\* line 141: iceq.run() is called
PolishCall ==
    /\ pc = "L141"
    /\ trace' = Append(trace, Call("iceq.run"))
    /\ pc' = "in_iceq_run"
    /\ UNCHANGED <<args, self, iceq, icepq, result, cmd, quiver_done, calls>>

\* iceq.run() returns; whether every polishing job is done is the stage's own affair
PolishReturn ==
    /\ pc = "in_iceq_run"
    /\ trace' = Append(trace, Ret("iceq.run"))
    /\ quiver_done' \in BOOLEAN
    /\ pc' = "L143"
    /\ UNCHANGED <<args, self, iceq, icepq, result, cmd, calls>>

\* iceq.run() raises: the exception leaves run()
PolishRaise ==
    /\ pc = "in_iceq_run"
    /\ \E e \in Errors :
          /\ trace' = Append(trace, Exc("iceq.run", e))
          /\ result' = Raised("iceq.run", e)
    /\ quiver_done' \in BOOLEAN
    /\ pc' = "idle"
    /\ UNCHANGED <<args, self, iceq, icepq, cmd, calls>>

\* Faulty variant of PostConstruct: post-processing may start once validation
\* is over, without waiting for iceq.run() (C1 must notice)
PostConstruct_BeforePolish ==
    /\ pc \in {"L141", "L143"}
    /\ icepq' = <<IceQuiverPostprocessArgs(self)>>
    /\ trace' = Append(trace, Construct("IceQuiverPostprocess"))
    /\ pc' = "L147"
    /\ UNCHANGED <<args, self, iceq, result, cmd, quiver_done, calls>>

\* Faulty variant of PostConstruct: run() returns without post-processing when
\* the polishing stage is not done (C3 must notice)
PostConstruct_OnlyIfDone ==
    /\ pc = "L143"
    /\ IF quiver_done
       THEN /\ icepq' = <<IceQuiverPostprocessArgs(self)>>
            /\ trace' = Append(trace, Construct("IceQuiverPostprocess"))
            /\ pc' = "L147"
            /\ UNCHANGED result
       ELSE /\ result' = Returned
            /\ pc' = "idle"
            /\ UNCHANGED <<icepq, trace>>
    /\ UNCHANGED <<args, self, iceq, cmd, quiver_done, calls>>

\* lines 143-146: the post-processing collaborator is constructed
PostConstruct ==
    /\ pc = "L143"
    /\ icepq' = <<IceQuiverPostprocessArgs(self)>>
    /\ trace' = Append(trace, Construct("IceQuiverPostprocess"))
    /\ pc' = "L147"
    /\ UNCHANGED <<args, self, iceq, result, cmd, quiver_done, calls>>

\* lines 143-146: IceQuiverPostprocess(...) raises: the exception leaves run()
PostConstructRaise ==
    /\ pc = "L143"
    /\ \E e \in Errors :
          /\ trace' = Append(trace, Exc("IceQuiverPostprocess", e))
          /\ result' = Raised("IceQuiverPostprocess", e)
    /\ pc' = "idle"
    /\ UNCHANGED <<args, self, iceq, icepq, cmd, quiver_done, calls>>

\* line 147: icepq.run() is called
PostCall ==
    /\ pc = "L147"
    /\ trace' = Append(trace, Call("icepq.run"))
    /\ pc' = "in_icepq_run"
    /\ UNCHANGED <<args, self, iceq, icepq, result, cmd, quiver_done, calls>>

\* icepq.run() returns and run() falls off its end
PostReturn ==
    /\ pc = "in_icepq_run"
    /\ trace' = Append(trace, Ret("icepq.run"))
    /\ result' = Returned
    /\ pc' = "idle"
    /\ UNCHANGED <<args, self, iceq, icepq, cmd, quiver_done, calls>>

\* Faulty variant of PostRaise: a failed icepq.run() is tried again (C6 must
\* notice)
PostRaise_Retry ==
    /\ pc = "in_icepq_run"
    /\ Len(trace) < 12
    /\ \E e \in Errors : trace' = Append(trace, Exc("icepq.run", e))
    /\ pc' = "L147"
    /\ UNCHANGED <<args, self, iceq, icepq, result, cmd, quiver_done, calls>>

\* icepq.run() raises: the exception leaves run()
PostRaise ==
    /\ pc = "in_icepq_run"
    /\ \E e \in Errors :
          /\ trace' = Append(trace, Exc("icepq.run", e))
          /\ result' = Raised("icepq.run", e)
    /\ pc' = "idle"
    /\ UNCHANGED <<args, self, iceq, icepq, cmd, quiver_done, calls>>

Next ==
    \/ CmdStr
    \/ RunBegin
    \/ IceQuiverConstruct
    \/ IceQuiverConstructRaise
    \/ ValidateCall
    \/ ValidateReturn
    \/ ValidateRaise
    \/ PolishCall
    \/ PolishReturn
    \/ PolishRaise
    \/ PostConstruct
    \/ PostConstructRaise
    \/ PostCall
    \/ PostReturn
    \/ PostRaise

Spec == Init /\ [][Next]_vars

(***************************************************************************)
(* Vocabulary of the properties                                            *)
(***************************************************************************)
\* Number of places where pat occurs in s
Count(s, pat) ==
    Cardinality({i \in 1..(Len(s) - Len(pat) + 1) : SubSeq(s, i, i + Len(pat) - 1) = pat})

\* pat occurs in s starting at position i
At(s, i, pat) == i + Len(pat) - 1 <= Len(s) /\ SubSeq(s, i, i + Len(pat) - 1) = pat

Has(e) == \E i \in DOMAIN trace : trace[i] = e
HasBefore(e, i) == \E j \in 1..(i - 1) : trace[j] = e
Times(e) == Cardinality({i \in DOMAIN trace : trace[i] = e})
RaiseAt(i) == trace[i].ev = "raise"
PostEvent(e) == e.op \in {"IceQuiverPostprocess", "icepq.run"}
PolishOps == {"validate_inputs", "iceq.run"}
CalledOps == [i \in 1..Len(SelectSeq(trace, LAMBDA e : e.ev = "call")) |->
                 SelectSeq(trace, LAMBDA e : e.ev = "call")[i].op]

\* C1: post-processing is neither constructed nor run before polishing run()
\* has returned, and the collaborator calls made so far are an initial part of
\* validate_inputs, iceq.run, icepq.run.
C1_PostOnlyAfterPolish ==
    /\ \A i \in DOMAIN trace : PostEvent(trace[i]) => HasBefore(Ret("iceq.run"), i)
    /\ icepq # <<>> => Has(Ret("iceq.run"))
    /\ CalledOps \in { <<>>, <<"validate_inputs">>, <<"validate_inputs", "iceq.run">>,
                       <<"validate_inputs", "iceq.run", "icepq.run">> }

C1_Witness == Has(Call("icepq.run")) /\ icepq # <<>>

\* C2: validate_inputs() is called before iceq.run(); a raising validate_inputs()
\* means iceq.run() is not called; a raise of either means post-processing is
\* never constructed or called and run() has ended in exactly that failure.
C2_PolishFailureStopsRun ==
    /\ \A i \in DOMAIN trace :
          trace[i] = Call("iceq.run") => HasBefore(Call("validate_inputs"), i)
    /\ (\E e \in Errors : Has(Exc("validate_inputs", e))) => ~Has(Call("iceq.run"))
    /\ \A op \in PolishOps : \A e \in Errors :
          Has(Exc(op, e)) =>
             /\ \A i \in DOMAIN trace : ~PostEvent(trace[i])
             /\ icepq = <<>>
             /\ pc = "idle"
             /\ result = Raised(op, e)

C2_Witness == result.kind = "raised" /\ result.by = "iceq.run" /\ Has(Ret("validate_inputs"))

\* C3 as stated: a finished run() in which validate_inputs() and iceq.run()
\* returned has called icepq.run(), whatever the upstream completion state, and
\* quit_if_not_done is False in every post-processing collaborator built.
C3_AsStated ==
    /\ (pc = "idle" /\ Has(Ret("validate_inputs")) /\ Has(Ret("iceq.run")))
          => Has(Call("icepq.run"))
    /\ icepq # <<>> => icepq[1].quit_if_not_done = FALSE

\* The run ended because IceQuiverPostprocess(...) itself raised
PostConstructionFailed ==
    /\ trace # <<>>
    /\ trace[Len(trace)].op = "IceQuiverPostprocess"
    /\ RaiseAt(Len(trace))
    /\ result = Raised("IceQuiverPostprocess", trace[Len(trace)].err)

\* C3 amended: a finished run() in which validate_inputs() and iceq.run()
\* returned has gone on to construct IceQuiverPostprocess, whatever the
\* upstream completion state, and has called icepq.run() unless that
\* construction itself raised, which ended run() with that failure; once
\* the collaborator is built its run() can always be called; quit_if_not_done
\* is False in every post-processing collaborator built.
C3_PostAlwaysInvoked ==
    /\ (pc = "idle" /\ Has(Ret("validate_inputs")) /\ Has(Ret("iceq.run")))
          => /\ \E i \in DOMAIN trace : trace[i].op = "IceQuiverPostprocess"
             /\ Has(Call("icepq.run")) \/ PostConstructionFailed
    /\ Has(Construct("IceQuiverPostprocess")) /\ pc # "L147" => Has(Call("icepq.run"))
    /\ pc = "L143" => ENABLED PostConstruct
    /\ pc = "L147" => ENABLED PostCall
    /\ icepq # <<>> => icepq[1].quit_if_not_done = FALSE

C3_Witness ==
    pc = "idle" /\ ~quiver_done /\ Has(Ret("iceq.run")) /\ Has(Call("icepq.run"))
      /\ icepq # <<>>

(***************************************************************************)
(* Properties of cmd_str().  cmd is what the last cmd_str() call returned; *)
(* the paths are read from args, the values given to the constructor.      *)
(***************************************************************************)
Flags == {S_report, S_summary}
BothNone == args.report_fn = None /\ args.summary_fn = None
BothSet ==
    /\ args.report_fn # None /\ args.report_fn # S_empty
    /\ args.summary_fn # None /\ args.summary_fn # S_empty

\* The configured texts, other than the flags the formatter itself writes
ConfiguredTexts ==
    {args.root_dir, args.bas_fofn, args.fasta_fofn,
     SgeCmdStr(args.sge_opts, TRUE, TRUE) \o IpqCmdStr(args.ipq_opts)}
    \cup ({args.report_fn, args.summary_fn} \ {None})

\* No configured text holds the text of a report or summary flag
FlagFree == \A t \in ConfiguredTexts : \A f \in Flags : Count(t, f) = 0

\* C4 as stated: with both paths None the string holds no "--report=" and no
\* "--summary="; with both non-empty it holds each exactly once, followed by
\* its path and a space.
C4_AsStated ==
    cmd # None =>
       /\ BothNone => Count(cmd, S_report) = 0 /\ Count(cmd, S_summary) = 0
       /\ BothSet =>
            /\ Count(cmd, S_report) = 1
            /\ Count(cmd, S_summary) = 1
            /\ Count(cmd, S_report \o args.report_fn \o S_sp) = 1
            /\ Count(cmd, S_summary \o args.summary_fn \o S_sp) = 1

\* C4 amended: the same, for configurations none of whose configured texts
\* (root_dir, bas_fofn, fasta_fofn, report_fn, summary_fn, the options'
\* serialization) itself holds "--report=" or "--summary=".
C4_FlagFreeConfigurations == FlagFree => C4_AsStated

C4_Witness ==
    /\ cmd # None /\ BothSet /\ FlagFree
    /\ Count(cmd, S_report \o args.report_fn \o S_sp) = 1

\* C5: the string begins with "ice_quiver.py all ", then root_dir and a space,
\* then "--bas_fofn=", bas_fofn and a space, then "--fasta_fofn=", fasta_fofn
\* and a space, each path as it was configured.
C5_FixedBeginning ==
    cmd # None =>
       LET p1 == Len(prog) + 1
           p2 == p1 + Len(args.root_dir) + 1
           p3 == p2 + Len(S_bas_fofn) + Len(args.bas_fofn) + 1
       IN  /\ At(cmd, 1, prog)
           /\ At(cmd, p1, args.root_dir \o S_sp)
           /\ At(cmd, p2, S_bas_fofn \o args.bas_fofn \o S_sp)
           /\ At(cmd, p3, S_fasta_fofn \o args.fasta_fofn \o S_sp)

C5_Witness == cmd # None /\ args.root_dir # args.bas_fofn /\ Len(args.bas_fofn) # Len(args.fasta_fofn)

\* Length of the fixed beginning of C5
BeginLen ==
    Len(prog) + Len(args.root_dir) + 1 + Len(S_bas_fofn) + Len(args.bas_fofn) + 1
      + Len(S_fasta_fofn) + Len(args.fasta_fofn) + 1
ReportLen == IF args.report_fn = None THEN 0 ELSE Len(S_report) + Len(args.report_fn) + 1
SummaryLen == IF args.summary_fn = None THEN 0 ELSE Len(S_summary) + Len(args.summary_fn) + 1
SgeText == SgeCmdStr(args.sge_opts, TRUE, TRUE)
IpqText == IpqCmdStr(args.ipq_opts)

\* C8: the string is, in this order and with nothing else, the program name,
\* the root directory, the two fofn flags, the report flag if any, the summary
\* flag if any, the SGE serialization with both nproc knobs shown, and the
\* HQ/LQ serialization.
C8_FixedOrder ==
    cmd # None =>
       LET r == BeginLen + 1
           u == r + ReportLen
           g == u + SummaryLen
           q == g + Len(SgeText)
       IN  /\ At(cmd, 1, prog \o args.root_dir \o S_sp)
           /\ At(cmd, Len(prog) + Len(args.root_dir) + 2, S_bas_fofn)
           /\ At(cmd, r - Len(args.fasta_fofn) - 1 - Len(S_fasta_fofn), S_fasta_fofn)
           /\ args.report_fn # None => At(cmd, r, S_report \o args.report_fn \o S_sp)
           /\ args.summary_fn # None => At(cmd, u, S_summary \o args.summary_fn \o S_sp)
           /\ At(cmd, g, SgeText)
           /\ At(cmd, q, IpqText)
           /\ Len(cmd) = q + Len(IpqText) - 1
           /\ Count(SgeText, S_blasr_nproc) = 1 /\ Count(SgeText, S_quiver_nproc) = 1

C8_Witness == cmd # None /\ BothSet /\ args.sge_opts.use_sge

\* C10: "--report=<report_fn> " is in the string, right after the fixed
\* beginning, exactly when report_fn is not None, and "--summary=<summary_fn> "
\* follows exactly when summary_fn is not None; each is decided by its own path
\* alone, and an empty path still gives its flag.
C10_NotNoneTest ==
    cmd # None =>
       LET rest == SubSeq(cmd, BeginLen + 1, Len(cmd))
           tail == SgeText \o IpqText
       IN  /\ (args.report_fn # None) <=> At(rest, 1, S_report)
           /\ args.report_fn # None => At(rest, 1, S_report \o args.report_fn \o S_sp)
           /\ (args.summary_fn # None) <=> At(rest, ReportLen + 1, S_summary)
           /\ args.summary_fn # None =>
                 At(rest, ReportLen + 1, S_summary \o args.summary_fn \o S_sp)
           /\ Len(rest) = ReportLen + SummaryLen + Len(tail)

C10_Witness == cmd # None /\ args.report_fn = S_empty /\ args.summary_fn = None

(***************************************************************************)
(* Properties of run() and of the object                                   *)
(***************************************************************************)
\* C6: in one run() each of validate_inputs(), iceq.run() and icepq.run() is
\* called at most once; a raise by any of them is the last collaborator event
\* of that run(), and run() has ended with exactly that failure.
C6_NoRetryNoRecovery ==
    /\ \A op \in PolishOps \cup {"icepq.run"} : Times(Call(op)) <= 1
    /\ \A i \in DOMAIN trace :
          RaiseAt(i) =>
             /\ i = Len(trace)
             /\ pc = "idle"
             /\ result = Raised(trace[i].op, trace[i].err)
    /\ result.kind = "raised" => trace # <<>> /\ trace[Len(trace)] = Exc(result.by, result.err)

C6_Witness == result.kind = "raised" /\ result.by = "icepq.run" /\ Times(Call("icepq.run")) = 1

\* A step taken by a cmd_str() call
CmdStrStep == pc = "idle" /\ pc' = "idle" /\ calls' # calls

\* C7: the seven attributes always hold the constructor's arguments, and a
\* cmd_str() call builds and calls no polishing or post-processing collaborator.
C7_NeverMutated ==
    /\ [](self = [root_dir |-> args.root_dir, bas_fofn |-> args.bas_fofn,
                  fasta_fofn |-> args.fasta_fofn, report_fn |-> args.report_fn,
                  summary_fn |-> args.summary_fn, sge_opts |-> args.sge_opts,
                  ipq_opts |-> args.ipq_opts])
    /\ [][CmdStrStep => UNCHANGED <<iceq, icepq, trace, result>>]_vars
    /\ [][args' = args]_vars

C7_Witness == cmd # None /\ result.kind = "raised" /\ calls >= 3

\* C9: IceQuiver is built with exactly root_dir, bas_fofn, fasta_fofn and
\* sge_opts of the orchestrator; IceQuiverPostprocess with its root_dir, with
\* use_sge = sge_opts.use_sge and with its ipq_opts; neither gets report_fn or
\* summary_fn.
C9_ConfigurationPassedThrough ==
    /\ iceq # <<>> =>
          /\ DOMAIN iceq[1] = {"root_dir", "bas_fofn", "fasta_fofn", "sge_opts"}
          /\ iceq[1].root_dir = args.root_dir
          /\ iceq[1].bas_fofn = args.bas_fofn
          /\ iceq[1].fasta_fofn = args.fasta_fofn
          /\ iceq[1].sge_opts = args.sge_opts
    /\ icepq # <<>> =>
          /\ DOMAIN icepq[1] = {"root_dir", "use_sge", "quit_if_not_done", "ipq_opts"}
          /\ icepq[1].root_dir = args.root_dir
          /\ icepq[1].use_sge = args.sge_opts.use_sge
          /\ icepq[1].ipq_opts = args.ipq_opts

C9_Witness == icepq # <<>> /\ iceq # <<>> /\ ~args.sge_opts.use_sge /\ args.report_fn # None

====
